---- MODULE Spec2Model ----
(***************************************************************************)
(* The bioRAG front end: the root component App.vue (its four reactive     *)
(* fields, the computed uniqueResults and the asynchronous handleSearch),  *)
(* the searchAPI wrapper, and the conditional blocks of SearchResults.vue. *)
(*                                                                         *)
(* handleSearch is an async function with one await.  JavaScript runs each *)
(* synchronous segment of it to completion, so the handler is two atomic   *)
(* steps: the segment up to the await (HandleSearchBegin) and the segment  *)
(* after the request settles (HandleSearchResolved / HandleSearchRejected).*)
(* Between the two, any number of other submissions and settlements may    *)
(* run.                                                                    *)
(***************************************************************************)
EXTENDS Naturals, Sequences, FiniteSets

\* The longest results array a response carries in the model.
MaxLen == 3
\* The number of submissions in one behaviour.
MaxSubmits == 2

VARIABLES
    results,    \* App.data().results
    summary,    \* App.data().summary
    loading,    \* App.data().loading
    searched,   \* App.data().searched
    inflight,   \* the handleSearch invocations suspended at `await searchAPI(query)`
    nextId,     \* the ordinal the next submission gets (submission order)
    console,    \* the error kinds written by console.error
    last        \* history: the step taken last, with the outcome it settled with

vars == <<results, summary, loading, searched, inflight, nextId, console, last>>

----------------------------------------------------------------------------
\* The data the API sends.

PmcIds == {"PMC1", "PMC2"}
Titles == {"A", "B"}
\* A SearchResult: the identifier and the rest of the card's data.  Three documents:
\* two that share the identifier PMC1 and differ in their data, and one under PMC2.
SearchResult == {r \in [pmc_id : PmcIds, title : Titles] : r.pmc_id = "PMC1" \/ r.title = "A"}

RECURSIVE SeqsUpTo(_, _)
SeqsUpTo(S, n) ==
    IF n = 0 THEN {<<>>}
    ELSE LET shorter == SeqsUpTo(S, n - 1)
         IN  shorter \cup {Append(s, x) : s \in {t \in shorter : Len(t) = n - 1}, x \in S}

ResultSeqs == SeqsUpTo(SearchResult, MaxLen)
Summaries == {"", "S"}

\* A field of the response body: absent (undefined or null), or present with a value.
AbsentResults == [present |-> FALSE, val |-> <<>>]
AbsentSummary == [present |-> FALSE, val |-> ""]
OptResults == {AbsentResults} \cup [present : {TRUE}, val : ResultSeqs]
OptSummary == {AbsentSummary} \cup [present : {TRUE}, val : Summaries]

\* response.data: an object with optional fields, or a body that is no object (null).
NullBody == [isObject |-> FALSE, results |-> AbsentResults, summary |-> AbsentSummary]
ObjectBodies == [isObject : {TRUE}, results : OptResults, summary : OptSummary]

\* How a request settles: api.post rejects, or it resolves with a body.
Rejection == [kind |-> "reject", body |-> NullBody]
Resolutions == [kind : {"resolve"}, body : ObjectBodies \cup {NullBody}]
NoOutcome == [kind |-> "none", body |-> NullBody]

----------------------------------------------------------------------------
\* App.vue

Init ==
    /\ results = <<>>
    /\ summary = ""
    /\ loading = FALSE
    /\ searched = FALSE
    /\ inflight = {}
    /\ nextId = 1
    /\ console = {}
    /\ last = [op |-> "init", id |-> 0, outcome |-> NoOutcome, hadData |-> FALSE]

\* Mutant of ResultsOrEmpty: an absent field leaves the previous results in place.
ResultsOrPrevious(field) == IF field.present THEN field.val ELSE results

\* data.results || []  : an array, even an empty one, is truthy.
ResultsOrEmpty(field) == IF field.present THEN field.val ELSE <<>>

\* data.summary || ''  : the empty string is falsy.
SummaryOrEmpty(field) == IF field.present /\ field.val # "" THEN field.val ELSE ""

\* Mutant of FilterSeen: the callback never records the identifier it has seen.
FilterSeenNeverAdds(s, seen) == SelectSeq(s, LAMBDA r : r.pmc_id \notin seen)

\* computed uniqueResults: the filter callback with its `seen` set, applied left to right.
RECURSIVE FilterSeen(_, _)
FilterSeen(s, seen) ==
    IF s = <<>> THEN <<>>
    ELSE IF Head(s).pmc_id \in seen
         THEN FilterSeen(Tail(s), seen)
         ELSE <<Head(s)>> \o FilterSeen(Tail(s), seen \cup {Head(s).pmc_id})

uniqueResults == FilterSeen(results, {})

\* The try block after the await: what results and summary become on a readable body.
TryAssign(data) ==
    [results |-> ResultsOrEmpty(data.results), summary |-> SummaryOrEmpty(data.summary)]

\* Mutant of CatchAssign: the catch block clears the summary and keeps the results.
CatchAssignKeepsResults == [results |-> results, summary |-> ""]

\* Mutant of CatchAssign: the catch block shows the failure in the summary.
CatchAssignShowsError == [results |-> <<>>, summary |-> "Search failed"]

\* The catch block: what results and summary become on a failure.
CatchAssign == [results |-> <<>>, summary |-> ""]

\* The statement after try/catch: this.loading = false.
LoadingAfterSettle == FALSE

\* Whether the try block runs to its end: searchAPI resolved and data.results can be read.
TryCompletes(o) == o.kind = "resolve" /\ o.body.isObject

\* The error the catch block receives.
ErrorOf(o) == IF o.kind = "reject" THEN "request failed" ELSE "TypeError"

HadData == results # <<>> \/ summary # ""

\* Mutant of HandleSearchBegin: the submission does not set searched.
HandleSearchBeginNoLatch ==
    /\ nextId <= MaxSubmits
    /\ loading' = TRUE
    /\ inflight' = inflight \cup {nextId}
    /\ nextId' = nextId + 1
    /\ last' = [op |-> "submit", id |-> nextId, outcome |-> NoOutcome, hadData |-> HadData]
    /\ UNCHANGED <<results, summary, searched, console>>

\* Mutant of HandleSearchBegin: the submission clears the previous search's data.
HandleSearchBeginClears ==
    /\ nextId <= MaxSubmits
    /\ loading' = TRUE
    /\ searched' = TRUE
    /\ results' = <<>>
    /\ summary' = ""
    /\ inflight' = inflight \cup {nextId}
    /\ nextId' = nextId + 1
    /\ last' = [op |-> "submit", id |-> nextId, outcome |-> NoOutcome, hadData |-> HadData]
    /\ UNCHANGED console

\* handleSearch up to the await: set the flags, issue the request, suspend.
HandleSearchBegin ==
    /\ nextId <= MaxSubmits
    /\ loading' = TRUE
    /\ searched' = TRUE
    /\ inflight' = inflight \cup {nextId}
    /\ nextId' = nextId + 1
    /\ last' = [op |-> "submit", id |-> nextId, outcome |-> NoOutcome, hadData |-> HadData]
    /\ UNCHANGED <<results, summary, console>>

\* Mutant of HandleSearchResolved: a response is applied only when its request is the
\* one submitted last; a stale response is dropped.
HandleSearchResolvedLatestOnly(id, o) ==
    /\ id \in inflight
    /\ TryCompletes(o)
    /\ results' = IF id = nextId - 1 THEN TryAssign(o.body).results ELSE results
    /\ summary' = IF id = nextId - 1 THEN TryAssign(o.body).summary ELSE summary
    /\ loading' = LoadingAfterSettle
    /\ inflight' = inflight \ {id}
    /\ last' = [op |-> "settle", id |-> id, outcome |-> o, hadData |-> HadData]
    /\ UNCHANGED <<searched, nextId, console>>

\* handleSearch after the await, the request having resolved with a readable body.
HandleSearchResolved(id, o) ==
    /\ id \in inflight
    /\ TryCompletes(o)
    /\ results' = TryAssign(o.body).results
    /\ summary' = TryAssign(o.body).summary
    /\ loading' = LoadingAfterSettle
    /\ inflight' = inflight \ {id}
    /\ last' = [op |-> "settle", id |-> id, outcome |-> o, hadData |-> HadData]
    /\ UNCHANGED <<searched, nextId, console>>

\* Mutant of HandleSearchRejected: loading is cleared at the end of the try block only,
\* so a failure leaves it set.
HandleSearchRejectedKeepsLoading(id, o) ==
    /\ id \in inflight
    /\ ~TryCompletes(o)
    /\ console' = console \cup {ErrorOf(o)}
    /\ results' = CatchAssign.results
    /\ summary' = CatchAssign.summary
    /\ inflight' = inflight \ {id}
    /\ last' = [op |-> "settle", id |-> id, outcome |-> o, hadData |-> HadData]
    /\ UNCHANGED <<loading, searched, nextId>>

\* handleSearch after the await, the request having failed: the catch block runs.
HandleSearchRejected(id, o) ==
    /\ id \in inflight
    /\ ~TryCompletes(o)
    /\ console' = console \cup {ErrorOf(o)}
    /\ results' = CatchAssign.results
    /\ summary' = CatchAssign.summary
    /\ loading' = LoadingAfterSettle
    /\ inflight' = inflight \ {id}
    /\ last' = [op |-> "settle", id |-> id, outcome |-> o, hadData |-> HadData]
    /\ UNCHANGED <<searched, nextId>>

----------------------------------------------------------------------------
\* SearchResults.vue, with the props App.vue binds (results is uniqueResults).

LoadingShown == loading
SummaryShown == summary # ""
CardsShown == Len(uniqueResults) > 0
\* Mutant of NoResultsShown: the condition leaves out searched.
NoResultsShownNoLatch == ~loading /\ Len(uniqueResults) = 0

NoResultsShown == ~loading /\ Len(uniqueResults) = 0 /\ searched

----------------------------------------------------------------------------

\* handleSearch is the listener of SearchBox's `search` event (App.vue line 8) and tests
\* neither loading nor anything else on entry, so a submission is possible in every
\* state, also while requests are in flight.  A request in flight settles at any time,
\* in any order, with any outcome.
Next ==
    \/ HandleSearchBegin
    \/ \E id \in inflight, o \in Resolutions : HandleSearchResolved(id, o)
    \/ \E id \in inflight, o \in Resolutions \cup {Rejection} : HandleSearchRejected(id, o)

Spec == Init /\ [][Next]_vars

----------------------------------------------------------------------------
\* Properties

\* The step taken last settled a request / settled it through the catch block /
\* settled it through the try block.
JustSettled == last.op = "settle"
JustFailed == JustSettled /\ ~(last.outcome.kind = "resolve" /\ last.outcome.body.isObject)
JustSucceeded == JustSettled /\ last.outcome.kind = "resolve" /\ last.outcome.body.isObject

\* The indices of results that hold the first entry of their identifier.
FirstIdx == {i \in DOMAIN results : \A k \in 1..(i - 1) : results[k].pmc_id # results[i].pmc_id}
\* The j-th smallest of them.
NthFirst(j) == CHOOSE i \in FirstIdx : Cardinality({k \in FirstIdx : k < i}) = j - 1

\* C1: uniqueResults holds each identifier of results exactly once, the entry kept for
\* an identifier is the first entry of results with it, and the kept entries are in
\* the order they have in results.
C1_UniqueKeepsFirst ==
    /\ \A i \in DOMAIN results :
          Cardinality({j \in DOMAIN uniqueResults : uniqueResults[j].pmc_id = results[i].pmc_id}) = 1
    /\ Len(uniqueResults) = Cardinality(FirstIdx)
    /\ \A j \in DOMAIN uniqueResults : uniqueResults[j] = results[NthFirst(j)]

\* results repeats an identifier with different data, with another identifier between.
C1_Witness ==
    /\ Len(results) = 3
    /\ results[1].pmc_id = results[3].pmc_id
    /\ results[1] # results[3]
    /\ results[2].pmc_id # results[1].pmc_id
    /\ uniqueResults = <<results[1], results[2]>>

\* C2: searched is false until the first submission, every submission leaves it true
\* before its request settles, and no step of any kind sets it back to false.
C2_SearchedLatch ==
    [][/\ (nextId = 1 => ~searched)
       /\ (nextId' # nextId => searched')
       /\ (searched => searched')]_vars

\* searched is still true after two overlapping requests have both settled, the last
\* of them by failing.
C2_Witness == searched /\ JustFailed /\ inflight = {} /\ nextId = 3

\* C3: after a settlement by failure (a rejection, or a body that is no object),
\* results is empty and summary is the empty string whatever they held before; the
\* error went to the console, and the other two fields are loading = FALSE and
\* searched = TRUE whatever the error was, so no field holds anything of it.
C3_FailureClears ==
    JustFailed =>
        /\ results = <<>>
        /\ summary = ""
        /\ ~loading /\ searched
        /\ console # {}

\* A request failed on an unreadable body while data of an earlier search was held.
C3_Witness == JustFailed /\ last.hadData /\ last.outcome.kind = "resolve" /\ results = <<>>

\* C4: loading is true exactly when some submitted request has not settled.
C4_LoadingIffInFlight == loading <=> inflight # {}

\* C5: a step that settles a request settles exactly one, submits none and ends with
\* loading false; results and summary are written by such a step only, so no state
\* holds a settlement's data with its clearing of loading still to come; a step that
\* issues a request ends with loading true.
C5_SettleIsOneStep ==
    [][LET settled == inflight \ inflight'
           issued == inflight' \ inflight
       IN  /\ settled # {} => Cardinality(settled) = 1 /\ issued = {} /\ ~loading'
           /\ (results' # results \/ summary' # summary) => settled # {}
           /\ issued # {} => loading' /\ settled = {}]_vars

\* A request has settled with data while another is still in flight.
C5_Witness == JustSucceeded /\ inflight # {} /\ ~loading /\ results # <<>>

\* C6: a settlement by failure and a settlement by a response with empty results and
\* an empty summary both end in the one state results = <<>>, summary = "",
\* loading = FALSE, searched = TRUE, in which the no-results message is shown and
\* neither a summary block nor a card is.
C6_FailureLooksEmpty ==
    LET body == last.outcome.body
        emptyResponse ==
            /\ JustSucceeded
            /\ body.results.present /\ body.results.val = <<>>
            /\ body.summary.present /\ body.summary.val = ""
    IN  (JustFailed \/ emptyResponse) =>
            /\ results = <<>> /\ summary = "" /\ ~loading /\ searched
            /\ NoResultsShown /\ ~SummaryShown /\ ~CardsShown

\* The only submission so far, made with nothing in flight, has failed.
C6_Witness == JustFailed /\ last.outcome.kind = "reject" /\ nextId = 2 /\ NoResultsShown

\* C7: after a settlement by success, results is the response's results field and
\* summary its summary field, whatever was held before; an absent field is stored as
\* the empty sequence or the empty string.
C7_SuccessReplaces ==
    JustSucceeded =>
        LET body == last.outcome.body
        IN  /\ results = (IF body.results.present THEN body.results.val ELSE <<>>)
            /\ summary = (IF body.summary.present THEN body.summary.val ELSE "")

\* A response with a summary and no results field has settled over earlier data.
C7_Witness ==
    /\ JustSucceeded /\ last.hadData
    /\ ~last.outcome.body.results.present
    /\ last.outcome.body.summary.val = "S"
    /\ results = <<>>

\* C8: the settlement of a request that is not the one submitted last writes its
\* response like any other, so the data held is that of the request settled last.
C8_StaleResponseWins ==
    (JustSettled /\ last.id < nextId - 1) =>
        IF JustSucceeded
        THEN /\ results = (IF last.outcome.body.results.present
                           THEN last.outcome.body.results.val ELSE <<>>)
             /\ summary = (IF last.outcome.body.summary.present
                           THEN last.outcome.body.summary.val ELSE "")
        ELSE results = <<>> /\ summary = ""

\* Two requests were in flight together, the second settled first, and the data held
\* is that of the first.
C8_Witness ==
    /\ JustSucceeded /\ last.id = 1 /\ nextId = 3 /\ inflight = {}
    /\ results # <<>> /\ summary = "S"

\* C9: the no-results message is shown exactly when loading is false, the deduplicated
\* results are empty and searched is true; never before the first submission, never
\* with the loading indicator, never with a card.
C9_NoResultsRule ==
    /\ NoResultsShown <=> (~loading /\ uniqueResults = <<>> /\ searched)
    /\ nextId = 1 => ~NoResultsShown
    /\ ~(NoResultsShown /\ LoadingShown)
    /\ ~(NoResultsShown /\ CardsShown)

\* The message is shown after a search that found nothing.
C9_Witness == NoResultsShown /\ JustSucceeded /\ ~LoadingShown

\* C10: a submission leaves results and summary as they are and ends with loading and
\* searched true; they change only in a step that settles a request.
C10_SubmitKeepsData ==
    [][/\ nextId' # nextId => UNCHANGED <<results, summary>> /\ loading' /\ searched'
       /\ (results' # results \/ summary' # summary) => inflight' # inflight /\ nextId' = nextId]_vars

\* The loading indicator is shown together with the previous search's cards and summary.
C10_Witness == last.op = "submit" /\ LoadingShown /\ CardsShown /\ SummaryShown

====
